---- MODULE Spec2Model ----
(***************************************************************************)
(* Model of src/mains.py: a sequential driver (main) that validates a date *)
(* window and, for each company, runs the paginated date-bounded collector *)
(* (fetch_reviews_in_date_range) on top of the page fetcher                *)
(* (fetch_g2_reviews) and saves non-empty results (save_reviews).          *)
(*                                                                         *)
(* Time.  A calendar date is a day number in Days.  A datetime is a number *)
(* of ticks, day * TicksPerDay + time-of-day, which is how Python orders   *)
(* naive datetimes.  An ISO-8601 string is a record [kind, day, tod]:      *)
(*   kind = "naive"      a date or date-time without UTC offset            *)
(*   kind = "aware"      a date-time with a UTC offset ("...Z", "+02:00")  *)
(*   kind = "malformed"  text that is not ISO-8601                         *)
(*   kind = "missing"    the key is absent, r.get("datetime", "") is ""    *)
(* The auth token and the free-text fields of a review (text, reviewer,    *)
(* rating) are copied through unchanged by the code and are represented by *)
(* the title alone, which carries the record's position in the API's list. *)
(***************************************************************************)
EXTENDS Integers, Sequences, FiniteSets, TLC

\* ---- bounds ------------------------------------------------------------
MaxDay == 2          \* calendar dates are 0..MaxDay
MaxReviews == 2      \* the API serves at most this many reviews in one run
MaxPage == 2         \* the API puts at most this many reviews in one response
MaxTokens == 2       \* comma-separated tokens in the company input line

\* ---- program constants -------------------------------------------------
batch_size == 50
HTTP_OK == 200

Days == 0..MaxDay
Tods == {0, 1}       \* times of day: midnight, and later in the day
TicksPerDay == Cardinality(Tods)
Slugs == {"jira", "notion"}
Statuses == {200, 500}

Min(a, b) == IF a <= b THEN a ELSE b

\* ---- ISO-8601 strings and their conversions ----------------------------
IsoStrings ==
  {[kind |-> "naive", day |-> d, tod |-> t] : d \in Days, t \in Tods}
    \cup {[kind |-> "aware", day |-> d, tod |-> 0] : d \in Days}
    \cup {[kind |-> "malformed", day |-> 0, tod |-> 0],
          [kind |-> "missing", day |-> 0, tod |-> 0]}

\* the strings a user can type at a date prompt (a key cannot be missing)
DateInputs == {s \in IsoStrings : s.kind # "missing"}

\* dateutil.parser.isoparse: raises on text that is not ISO-8601, otherwise
\* a datetime that is offset-aware exactly when the text carries an offset
isoparse(s) ==
  IF s.kind \in {"malformed", "missing"}
  THEN [ok |-> FALSE, aware |-> FALSE, ticks |-> 0]
  ELSE [ok |-> TRUE, aware |-> (s.kind = "aware"),
        ticks |-> s.day * TicksPerDay + s.tod]

\* datetime.fromisoformat: same result type, used on the user's input and on
\* the strings main hands to the collector
fromisoformat(s) ==
  IF s.kind = "malformed"
  THEN [ok |-> FALSE, aware |-> FALSE, ticks |-> 0]
  ELSE [ok |-> TRUE, aware |-> (s.kind = "aware"),
        ticks |-> s.day * TicksPerDay + s.tod]

\* datetime.date(): drops the time of day
DateOf(dt) == dt.ticks \div TicksPerDay

\* date.isoformat(): "YYYY-MM-DD"
isoformat(d) == [kind |-> "naive", day |-> d, tod |-> 0]

\* datetime.strftime("%Y-%m-%d")
strftime(dt) == [kind |-> "naive", day |-> dt.ticks \div TicksPerDay, tod |-> 0]

\* ---- company input -----------------------------------------------------
\* tokens between commas, with their surrounding blanks
Tokens == {"", " ", "jira", " notion "}

strip(tok) ==
  CASE tok = " " -> ""
    [] tok = " notion " -> "notion"
    [] OTHER -> tok

RECURSIVE ParseCompanies(_)
\* [c.strip() for c in companies_input.split(",") if c.strip()]
ParseCompanies(toks) ==
  IF toks = <<>> THEN <<>>
  ELSE LET c == strip(Head(toks))
       IN  IF c = "" THEN ParseCompanies(Tail(toks))
           ELSE <<c>> \o ParseCompanies(Tail(toks))

TokenLines == UNION {[1..n -> Tokens] : n \in 1..MaxTokens}

\* ---- the review API ----------------------------------------------------
\* a raw review at position pos of the company's list
RawReview(ts, pos) == [datetime |-> ts, title |-> pos]

\* the pages an API serving positions off+1 .. off+n of the company's list
\* can answer with, when it has room reviews left to serve
PagesAt(off, room) ==
  UNION {{[j \in 1..n |-> RawReview(f[j], off + j)] : f \in [1..n -> IsoStrings]}
           : n \in 0..Min(MaxPage, room)}

\* HTTP responses: a status, and a JSON body with or without a "reviews" key
Responses(off, room) ==
  {[status |-> st, has_reviews |-> TRUE, reviews |-> p]
      : st \in Statuses, p \in PagesAt(off, room)}
    \cup {[status |-> HTTP_OK, has_reviews |-> FALSE, reviews |-> <<>>]}

Take(s, n) == SubSeq(s, 1, Min(n, Len(s)))

\* faulty variant: the status check of lines 21-23 is missing
fetch_g2_reviews_IgnoresStatus(resp) ==
  Take(IF resp.has_reviews THEN resp.reviews ELSE <<>>, batch_size)

\* fetch_g2_reviews, as a function of the response to its request
fetch_g2_reviews(resp) ==
  IF resp.status # HTTP_OK THEN <<>>
  ELSE Take(IF resp.has_reviews THEN resp.reviews ELSE <<>>, batch_size)

\* the normalized record built for a raw review that passed the filter
Normalized(c, r, dt) ==
  [source |-> "g2", company |-> c, title |-> r.title, date |-> strftime(dt)]

\* faulty variant: the filter of line 57 has lost its upper bound
Verdict_NoUpperBound(review_date, cs, ce) ==
  IF ~review_date.ok THEN "skip"
  ELSE IF review_date.aware THEN "raise"
  ELSE IF review_date.ticks < cs THEN "stop"
  ELSE "keep"

\* lines 48-57: what the loop body does with one record, given the result of
\* isoparse and the collector's two naive datetimes
\*   "skip"   isoparse raised, except: continue
\*   "raise"  review_date < start_date compares an offset-aware datetime
\*            with a naive one: TypeError, outside the try
\*   "stop"   return all_reviews
\*   "keep"   append the normalized record
\*   "drop"   neither condition holds, next record
Verdict(review_date, cs, ce) ==
  IF ~review_date.ok THEN "skip"
  ELSE IF review_date.aware THEN "raise"
  ELSE IF review_date.ticks < cs THEN "stop"
  ELSE IF cs <= review_date.ticks /\ review_date.ticks <= ce THEN "keep"
  ELSE "drop"

\* faulty variant: the offset does not move
NextOffset_Stuck(off, page) == off

\* line 68
NextOffset(off, page) == off + Len(page)

\* faulty variant: the check of lines 113-115 is missing
ValidateWindow_NoInvertedCheck(s, e, t) ==
  IF s > t
  THEN [verdict |-> "future_start", end |-> e, msgs |-> {"future_start"}]
  ELSE [verdict |-> "ok", end |-> (IF e > t THEN t ELSE e),
        msgs |-> (IF e > t THEN {"adjusted"} ELSE {})]

\* faulty variant: the clamp of lines 109-111 is missing
ValidateWindow_NoClamp(s, e, t) ==
  IF s > t
  THEN [verdict |-> "future_start", end |-> e, msgs |-> {"future_start"}]
  ELSE IF s > e
       THEN [verdict |-> "inverted", end |-> e, msgs |-> {"inverted"}]
       ELSE [verdict |-> "ok", end |-> e, msgs |-> {}]

\* lines 105-115: the verdict on start s, end e and today t, the end date
\* after the clamp and the messages printed
ValidateWindow(s, e, t) ==
  IF s > t
  THEN [verdict |-> "future_start", end |-> e, msgs |-> {"future_start"}]
  ELSE LET clamped == IF e > t THEN t ELSE e
           warned == IF e > t THEN {"adjusted"} ELSE {}
       IN  IF s > clamped
           THEN [verdict |-> "inverted", end |-> clamped, msgs |-> warned \cup {"inverted"}]
           ELSE [verdict |-> "ok", end |-> clamped, msgs |-> warned]

\* faulty variant: save_reviews is called whatever the result
ShouldSave_Always(result) == TRUE

\* line 128: the else branch of "if not reviews"
ShouldSave(result) == result # <<>>

\* ---- state -------------------------------------------------------------
VARIABLES
  pc,           \* main: "input", "validate", "loop", "collect", "done", "aborted", "crashed"
  today, start_date, end_date,     \* main's dates (day numbers)
  companies,    \* main's list of slugs
  k,            \* number of companies the for loop has finished
  out,          \* marker messages main has printed
  files,        \* the output directory: slug -> saved list
  cpc,          \* collector: "idle", "fetch", "scan", "ret", "raised"
  company,      \* collector's company
  c_start, c_end,   \* collector's start_date / end_date (datetimes, ticks)
  all_reviews, offset, reviews, i,   \* collector's locals; i = next record of the page
  status,       \* status code of the last response
  calls,        \* history: companies the collector was invoked for
  saves,        \* history: save_reviews invocations
  requests,     \* history: offsets requested in the current collection
  received,     \* history: titles of the raw records received in the current collection
  reason,       \* history: how the current collection ended
  served        \* history: number of reviews the API has put in responses

vars == <<pc, today, start_date, end_date, companies, k, out, files, cpc,
          company, c_start, c_end, all_reviews, offset, reviews, i, status,
          calls, saves, requests, received, reason, served>>

mainVars == <<today, start_date, end_date, companies, k, out, files, calls, saves>>
collVars == <<company, c_start, c_end, all_reviews, offset, reviews, i, status,
              requests, received, reason, served>>

NoFile == <<>>

Init ==
  /\ pc = "input"
  /\ today = 0 /\ start_date = 0 /\ end_date = 0
  /\ companies = <<>>
  /\ k = 0
  /\ out = {}
  /\ files = [c \in Slugs |-> NoFile]
  /\ cpc = "idle"
  /\ company = ""
  /\ c_start = 0 /\ c_end = 0
  /\ all_reviews = <<>> /\ offset = 0 /\ reviews = <<>> /\ i = 0
  /\ status = 0
  /\ calls = <<>>
  /\ saves = <<>>
  /\ requests = <<>>
  /\ received = <<>>
  /\ reason = "none"
  /\ served = 0

\* ---- main --------------------------------------------------------------
\* lines 90-103: the four prompts, date.today() and the two date parses;
\* a date that does not parse raises ValueError out of main
ReadInputs ==
  /\ pc = "input"
  /\ \E toks \in TokenLines, s_in \in DateInputs, e_in \in DateInputs, t \in Days :
       LET s == fromisoformat(s_in)
           e == fromisoformat(e_in)
       IN  IF s.ok /\ e.ok
           THEN /\ companies' = ParseCompanies(toks)
                /\ today' = t
                /\ start_date' = DateOf(s)
                /\ end_date' = DateOf(e)
                /\ pc' = "validate"
           ELSE /\ pc' = "crashed"
                /\ UNCHANGED <<companies, today, start_date, end_date>>
  /\ UNCHANGED <<k, out, files, calls, saves, cpc>>
  /\ UNCHANGED collVars

\* lines 105-115
Validate ==
  /\ pc = "validate"
  /\ LET v == ValidateWindow(start_date, end_date, today)
     IN  /\ end_date' = v.end
         /\ out' = out \cup v.msgs
         /\ pc' = IF v.verdict = "ok" THEN "loop" ELSE "aborted"
  /\ UNCHANGED <<today, start_date, companies, k, files, calls, saves, cpc>>
  /\ UNCHANGED collVars

\* lines 120-126 and 33-39: the for loop takes the next company and calls
\* the collector, which parses the two strings and clears its locals
CallCollector ==
  /\ pc = "loop"
  /\ k < Len(companies)
  /\ pc' = "collect"
  /\ cpc' = "fetch"
  /\ company' = companies[k + 1]
  /\ c_start' = fromisoformat(isoformat(start_date)).ticks
  /\ c_end' = fromisoformat(isoformat(end_date)).ticks
  /\ all_reviews' = <<>>
  /\ offset' = 0
  /\ reviews' = <<>>
  /\ i' = 0
  /\ calls' = Append(calls, companies[k + 1])
  /\ requests' = <<>>
  /\ received' = <<>>
  /\ reason' = "none"
  /\ UNCHANGED <<today, start_date, end_date, companies, k, out, files, saves,
                 status, served>>

\* lines 128-131 and 76-83: the collector has returned (its locals and the
\* histories of the finished collection are dropped); save a non-empty result
HandleResult ==
  /\ pc = "collect"
  /\ cpc = "ret"
  /\ IF ShouldSave(all_reviews)
     THEN /\ files' = [files EXCEPT ![company] = all_reviews]
          /\ saves' = Append(saves, [company |-> company, reviews |-> all_reviews])
     ELSE UNCHANGED <<files, saves>>
  /\ k' = k + 1
  /\ pc' = "loop"
  /\ cpc' = "idle"
  /\ all_reviews' = <<>> /\ offset' = 0 /\ reviews' = <<>> /\ i' = 0
  /\ status' = 0
  /\ requests' = <<>> /\ received' = <<>> /\ reason' = "none"
  /\ UNCHANGED <<today, start_date, end_date, companies, out, calls,
                 company, c_start, c_end, served>>

\* line 133
Finish ==
  /\ pc = "loop"
  /\ k = Len(companies)
  /\ pc' = "done"
  /\ out' = out \cup {"done"}
  /\ UNCHANGED <<today, start_date, end_date, companies, k, files, calls, saves, cpc>>
  /\ UNCHANGED collVars

\* ---- the collector -----------------------------------------------------
\* lines 42-45: one request at the current offset; an empty page ends the loop
Fetch ==
  /\ cpc = "fetch"
  /\ \E resp \in Responses(offset, MaxReviews - served) :
       LET page == fetch_g2_reviews(resp)
       IN  /\ status' = resp.status
           /\ served' = served + Len(page)
           /\ reviews' = page
           /\ received' = received \o [j \in 1..Len(page) |-> page[j].title]
           /\ IF page = <<>>
              THEN /\ cpc' = "ret"
                   /\ reason' = "empty"
                   /\ i' = 0
              ELSE /\ cpc' = "scan"
                   /\ reason' = reason
                   /\ i' = 1
  /\ requests' = Append(requests, offset)
  /\ UNCHANGED <<pc, company, c_start, c_end, all_reviews, offset>>
  /\ UNCHANGED mainVars

\* lines 47-66: one iteration of the for loop over the page
ProcessRecord ==
  /\ cpc = "scan"
  /\ i <= Len(reviews)
  /\ LET r == reviews[i]
         review_date == isoparse(r.datetime)
         verdict == Verdict(review_date, c_start, c_end)
     IN  CASE verdict = "raise" ->
                \* nothing in main catches the TypeError
                /\ cpc' = "raised"
                /\ pc' = "crashed"
                /\ reason' = "TypeError"
                /\ UNCHANGED <<i, all_reviews>>
           [] verdict = "stop" ->
                /\ cpc' = "ret"
                /\ reason' = "older"
                /\ UNCHANGED <<pc, i, all_reviews>>
           [] verdict = "keep" ->
                /\ all_reviews' = Append(all_reviews, Normalized(company, r, review_date))
                /\ i' = i + 1
                /\ UNCHANGED <<pc, cpc, reason>>
           [] OTHER ->
                \* "skip" and "drop": on to the next record
                /\ i' = i + 1
                /\ UNCHANGED <<pc, cpc, all_reviews, reason>>
  /\ UNCHANGED <<company, c_start, c_end, offset, reviews, status, requests,
                 received, served>>
  /\ UNCHANGED mainVars

\* line 68: the page is finished; the page itself is dead from here to the
\* next assignment of reviews at line 42 and is dropped
AdvanceOffset ==
  /\ cpc = "scan"
  /\ i > Len(reviews)
  /\ offset' = NextOffset(offset, reviews)
  /\ cpc' = "fetch"
  /\ reviews' = <<>>
  /\ i' = 0
  /\ UNCHANGED <<pc, company, c_start, c_end, all_reviews, status,
                 requests, received, reason, served>>
  /\ UNCHANGED mainVars

Next ==
  \/ ReadInputs
  \/ Validate
  \/ CallCollector
  \/ HandleResult
  \/ Finish
  \/ Fetch
  \/ ProcessRecord
  \/ AdvanceOffset

Spec == Init /\ [][Next]_vars

\* ---- vocabulary of the claims ------------------------------------------
\* the for loop of lines 47-66 is about to process reviews[i]
Scanning == cpc = "scan" /\ i >= 1 /\ i <= Len(reviews)

\* the timestamp of the record about to be processed
CurTs == reviews[i].datetime

\* a timestamp that parses: it names a calendar date, its field day
Parsable(ts) == ts.kind \in {"naive", "aware"}

\* a "YYYY-MM-DD" string naming a date of main's validated window
InWindow(ds) == ds.kind = "naive" /\ ds.tod = 0 /\ start_date <= ds.day /\ ds.day <= end_date

NoDuplicates(seq) == \A a, b \in 1..Len(seq) : a # b => seq[a] # seq[b]

Titles(recs) == [j \in 1..Len(recs) |-> recs[j].title]

\* ---- C1 ----------------------------------------------------------------
\* C1: every normalized record in the accumulator, hence every record the
\* collector returns, and every record of every file written has a date d
\* with start_date <= d <= end_date.
C1_RecordsInWindow ==
  /\ \A j \in 1..Len(all_reviews) : InWindow(all_reviews[j].date)
  /\ \A c \in Slugs : \A j \in 1..Len(files[c]) : InWindow(files[c][j].date)

\* a run that ended with one file written, while the API had served more
\* records than that file holds: some record was filtered out
C1_Witness ==
  /\ pc = "done"
  /\ Len(saves) = 1
  /\ served > Len(saves[1].reviews)
  /\ files[saves[1].company] = saves[1].reviews

\* ---- C2 ----------------------------------------------------------------
\* C2: whenever the collector processes a record whose timestamp parses to
\* a calendar date d with start_date <= d <= end_date, at any time of day,
\* that step appends exactly one normalized record with date d.
C2_InclusiveCalendarWindow ==
  [][ (Scanning /\ Parsable(CurTs) /\ start_date <= CurTs.day /\ CurTs.day <= end_date)
        => all_reviews' = Append(all_reviews,
                                 [source |-> "g2", company |-> company,
                                  title |-> reviews[i].title,
                                  date |-> isoformat(CurTs.day)]) ]_vars

\* ---- C3 ----------------------------------------------------------------
\* C3: whenever the collector processes a record whose parsed date is
\* strictly earlier than start_date, that step returns the accumulator as
\* it stood: nothing is appended, no request is added, and the collection
\* is over (the only step that follows is main handling the result).
C3_EarlyTermination ==
  [][ (Scanning /\ Parsable(CurTs) /\ CurTs.day < start_date)
        => /\ cpc' = "ret"
           /\ pc' = "collect"
           /\ all_reviews' = all_reviews
           /\ requests' = requests ]_vars

\* ---- C4 ----------------------------------------------------------------
\* C4: when the start date is after today, or after the end date (as typed
\* or as clamped to today), validation aborts: the collector has not been
\* and is never invoked, no file is written, and nothing happens afterwards.
C4_InvalidWindowAborts ==
  [][ /\ (pc = "validate" /\ (start_date > today \/ start_date > end_date
                                \/ start_date > Min(end_date, today)))
          => /\ pc' = "aborted"
             /\ cpc' = "idle"
             /\ calls' = <<>>
             /\ saves' = <<>>
             /\ files' = [c \in Slugs |-> NoFile]
      /\ pc # "aborted" ]_vars

\* an inverted range was rejected with two companies waiting
C4_Witness ==
  /\ pc = "aborted"
  /\ "inverted" \in out
  /\ Len(companies) >= 2
  /\ start_date <= today
  /\ calls = <<>>

\* ---- C5 ----------------------------------------------------------------
\* C5: a window whose start is neither after today nor after min(end,
\* today) passes validation, with its end replaced by min(end, today); and
\* every invocation of the collector has a window start <= end <= today,
\* the one main validated.
C5_ClampedWindow ==
  /\ [][ (pc = "validate" /\ start_date <= today /\ start_date <= Min(end_date, today))
           => /\ pc' = "loop"
              /\ start_date' = start_date
              /\ end_date' = Min(end_date, today) ]_vars
  /\ [](cpc # "idle" => /\ c_start = start_date * TicksPerDay
                        /\ c_end = end_date * TicksPerDay
                        /\ c_start <= c_end
                        /\ c_end <= today * TicksPerDay)

\* the collector runs on a window whose end was clamped to today
C5_Witness ==
  /\ cpc = "fetch"
  /\ "adjusted" \in out
  /\ end_date = today
  /\ start_date < end_date

\* ---- C6 ----------------------------------------------------------------
\* C6: a response with a status other than 200 ends the company's
\* collection with the accumulator unchanged and without an exception;
\* main then handles the result and moves on, and the loop's next step is
\* the collection of the next company of the list.
C6_SoftFailure ==
  [][ /\ (cpc = "fetch" /\ status' # HTTP_OK)
          => (cpc' = "ret" /\ pc' = "collect" /\ all_reviews' = all_reviews)
      /\ (cpc = "ret" /\ status # HTTP_OK)
          => (pc' = "loop" /\ k' = k + 1 /\ companies' = companies)
      /\ (pc = "loop" /\ k < Len(companies))
          => (cpc' = "fetch" /\ company' = companies[k + 1]) ]_vars

\* a failure on a later page, with records accumulated and a company left
C6_Witness ==
  /\ cpc = "ret"
  /\ status = 500
  /\ Len(requests) >= 2
  /\ all_reviews # <<>>
  /\ k + 1 < Len(companies)

\* ---- C7 ----------------------------------------------------------------
\* C7: within one collection the first request is at offset 0, the offsets
\* of the requests increase strictly, the offset of a request is the number
\* of raw records received before it, no raw record is received twice and
\* no record is twice in the accumulator.
C7_PaginationNoDuplicates ==
  /\ (requests # <<>> => requests[1] = 0)
  /\ \A j \in 1..(Len(requests) - 1) : requests[j] < requests[j + 1]
  /\ (cpc = "fetch" => offset = Len(received))
  /\ (cpc = "scan" => /\ offset = requests[Len(requests)]
                      /\ offset + Len(reviews) = Len(received))
  /\ NoDuplicates(received)
  /\ NoDuplicates(Titles(all_reviews))

\* two pages were requested and a record of each was kept
C7_Witness ==
  /\ Len(requests) >= 2
  /\ Len(all_reviews) >= 2
  /\ all_reviews[1].title <= requests[2]
  /\ all_reviews[2].title > requests[2]

\* ---- C8 ----------------------------------------------------------------
\* C8: a collection that has ended has ended because a fetched page was
\* empty or because a record older than start_date was observed.
C8_EndsOnlyByEmptyPageOrOlderRecord ==
  cpc \in {"ret", "raised"} => (cpc = "ret" /\ reason \in {"empty", "older"})

\* ---- C9 ----------------------------------------------------------------
\* C9: the collector is invoked for the non-empty slugs in the order given,
\* each once by the time main is done; save_reviews is invoked exactly when
\* a collection returns a non-empty result, with that company and that
\* result; an empty result writes nothing, and in both cases the loop goes
\* on to the next company.
C9_PerCompanyDriving ==
  /\ [](/\ \A j \in 1..Len(companies) : companies[j] \in Slugs
        /\ Len(calls) <= Len(companies)
        /\ calls = SubSeq(companies, 1, Len(calls))
        /\ (pc \in {"loop", "done"} => Len(calls) = k)
        /\ (pc = "collect" => Len(calls) = k + 1 /\ company = companies[k + 1])
        /\ (pc = "done" => calls = companies))
  /\ [][ /\ (cpc = "ret" /\ all_reviews # <<>>)
             => /\ saves' = Append(saves, [company |-> company, reviews |-> all_reviews])
                /\ files' = [files EXCEPT ![company] = all_reviews]
         /\ (cpc = "ret" /\ all_reviews = <<>>)
             => (saves' = saves /\ files' = files)
         /\ (cpc = "ret") => (pc' = "loop" /\ k' = k + 1)
         /\ (cpc # "ret") => (saves' = saves /\ files' = files) ]_vars

\* the first company's result was empty and the second company's was saved
C9_Witness ==
  /\ pc = "done"
  /\ Len(companies) >= 2
  /\ companies[1] # companies[2]
  /\ files[companies[1]] = NoFile
  /\ Len(saves) = 1
  /\ saves[1].company = companies[2]

\* ---- C10 ---------------------------------------------------------------
\* C10: whenever the collector processes a record whose date is strictly
\* later than end_date, or whose timestamp is missing or does not parse,
\* that step appends nothing and goes on to the next record of the page.
C10_SkipsDoNotTerminate ==
  [][ (Scanning /\ (~Parsable(CurTs) \/ CurTs.day > end_date))
        => /\ all_reviews' = all_reviews
           /\ cpc' = "scan"
           /\ pc' = "collect"
           /\ i' = i + 1 ]_vars

====
